---- MODULE Spec2Model ----
(***************************************************************************)
(* The order API of fastapi_app/app/main.py as a state machine over the    *)
(* relational store it talks to: the PaymentOrder table, the OrderItem     *)
(* table and the (read-only) Product table.  Every handler is one action,  *)
(* except add_order, which commits twice and is therefore two steps with   *)
(* the request in flight between them.                                      *)
(***************************************************************************)
EXTENDS Integers, Sequences, FiniteSets, TLC

VARIABLES orders, items, nextOrderId, nextItemId, inflight, resp

vars == <<orders, items, nextOrderId, nextItemId, inflight, resp>>

(***************************************************************************)
(* Bounds of the model.                                                    *)
(***************************************************************************)
\* order ids the store hands out before add_order is no longer taken
MaxOrders == 2
\* OrderItem rows the store takes before add_order with items is no longer taken
MaxItems == 2
\* longest items list of an UpdateOrderIn
MaxEntries == 1

(***************************************************************************)
(* Optional values: None is the empty tuple, a present value v is <<v>>.   *)
(***************************************************************************)
None == <<>>

Some(v) == <<v>>

Opt(S) == {None} \cup {Some(v) : v \in S}

(***************************************************************************)
(* Value domains of the requests.                                          *)
(***************************************************************************)
\* the rows of the Product table: never written by any handler
Products == {[id |-> 1, name |-> "shoe"], [id |-> 2, name |-> "shirt"]}

\* product ids a caller may send: 3 is the id of no Product
ProductIds == {1, 2, 3}

Quantities == {1, 2}

Prices == {5, 10}

UserIds == Opt({7})

\* timestamps: what a caller sends as date_shipped and what utcnow() returns
Times == {1, 2}

OrderIds == 1..MaxOrders

\* full_name, email, shipping_address, amount_paid of an OrderIn
Profiles ==
  {[full_name |-> "Ann", email |-> "ann@x", shipping_address |-> "1 Elm", amount_paid |-> 25],
   [full_name |-> "Bob", email |-> "bob@x", shipping_address |-> "2 Oak", amount_paid |-> 40]}

\* OrderItemIn
OrderItemIn == [product_id : ProductIds, quantity : Quantities, price : Prices]

SeqsUpTo(S, n) == UNION {[1..k -> S] : k \in 0..n}

\* OrderIn
OrderIn == [user_id : UserIds, profile : Profiles, items : SeqsUpTo(OrderItemIn, MaxItems)]

\* UpdateOrderItemIn
UpdateOrderItemIn == [product_id : ProductIds, quantity : Opt(Quantities), price : Opt(Prices)]

\* UpdateOrderIn
UpdateOrderIn ==
  [shipped : Opt(BOOLEAN), date_shipped : Opt(Times),
   items : Opt(SeqsUpTo(UpdateOrderItemIn, MaxEntries))]

(***************************************************************************)
(* The store.                                                              *)
(***************************************************************************)
\* the column defaults of PaymentOrder.shipped and PaymentOrder.date_shipped
ShippedDefault == FALSE

DateShippedDefault == None

\* a PaymentOrder row as add_order builds it
NewPaymentOrder(id, order) ==
  [id |-> id,
   user_id |-> order.user_id,
   full_name |-> order.profile.full_name,
   email |-> order.profile.email,
   shipping_address |-> order.profile.shipping_address,
   amount_paid |-> order.profile.amount_paid,
   shipped |-> ShippedDefault,
   date_shipped |-> DateShippedDefault]

\* variant, not the code: user_id is not copied to the rows
NewOrderItems_NoUser(order_id, user_id, its, firstId) ==
  {[id |-> firstId + k - 1,
    order_id |-> order_id,
    product_id |-> its[k].product_id,
    user_id |-> None,
    quantity |-> its[k].quantity,
    price |-> its[k].price] : k \in 1..Len(its)}

\* the OrderItem rows add_order builds for the order it has just committed,
\* with the ids the store gives them on insert
NewOrderItems(order_id, user_id, its, firstId) ==
  {[id |-> firstId + k - 1,
    order_id |-> order_id,
    product_id |-> its[k].product_id,
    user_id |-> user_id,
    quantity |-> its[k].quantity,
    price |-> its[k].price] : k \in 1..Len(its)}

ItemsOf(rows, order_id) == {r \in rows : r.order_id = order_id}

\* the rows left when a PaymentOrder is deleted
Cascade(rows, order_id) == rows \ ItemsOf(rows, order_id)

\* what is recorded of the last request answered: the handler, the status
\* code, the order id of the path, what the request held (note) and the body
Response(op, code, order_id, note, body) ==
  [op |-> op, code |-> code, order_id |-> order_id, note |-> note, body |-> body]

\* of an update request: whether it supplied date_shipped, and the product
\* ids of its item entries, in their order
Note(dated, products) == [dated |-> dated, products |-> products]

NoNote == Note(FALSE, <<>>)

Init ==
  /\ orders = {}
  /\ items = {}
  /\ nextOrderId = 1
  /\ nextItemId = 1
  /\ inflight = {}
  /\ resp = Response("none", 0, 0, NoNote, {})

OrderRow(rows, order_id) == {o \in rows : o.id = order_id}

(***************************************************************************)
(* POST /orders.  The PaymentOrder is added and committed first; the       *)
(* request then holds the new id while it builds the OrderItem rows, and   *)
(* commits them together.                                                  *)
(***************************************************************************)
\* OrderItem rows inserted so far or still to be inserted by a request in flight
RECURSIVE Pending(_)
Pending(reqs) ==
  IF reqs = {} THEN 0
  ELSE LET r == CHOOSE q \in reqs : TRUE IN Len(r.items) + Pending(reqs \ {r})

add_order(order) ==
  /\ nextOrderId <= MaxOrders
  /\ (nextItemId - 1) + Pending(inflight) + Len(order.items) <= MaxItems
  /\ orders' = orders \cup {NewPaymentOrder(nextOrderId, order)}
  /\ nextOrderId' = nextOrderId + 1
  /\ inflight' = inflight \cup
       {[order_id |-> nextOrderId, user_id |-> order.user_id, items |-> order.items]}
  /\ UNCHANGED <<items, nextItemId, resp>>

add_order_items(req) ==
  /\ req \in inflight
  /\ items' = items \cup NewOrderItems(req.order_id, req.user_id, req.items, nextItemId)
  /\ nextItemId' = nextItemId + Len(req.items)
  /\ inflight' = inflight \ {req}
  /\ resp' = Response("add_order", 200, req.order_id, NoNote, {})
  /\ UNCHANGED <<orders, nextOrderId>>

\* variant, not the code: the failing request takes its order back
add_order_fails_Rollback(req) ==
  /\ req \in inflight
  /\ inflight' = inflight \ {req}
  /\ orders' = orders \ OrderRow(orders, req.order_id)
  /\ resp' = Response("add_order", 500, req.order_id, NoNote, {})
  /\ UNCHANGED <<items, nextOrderId, nextItemId>>

\* the request ends between the two commits (the second commit raises, the
\* process stops): nothing of the first commit is undone
add_order_fails(req) ==
  /\ req \in inflight
  /\ inflight' = inflight \ {req}
  /\ resp' = Response("add_order", 500, req.order_id, NoNote, {})
  /\ UNCHANGED <<orders, items, nextOrderId, nextItemId>>

(***************************************************************************)
(* PUT /orders/{order_id}.                                                 *)
(***************************************************************************)
\* variant, not the code: no timestamp is filled in
UpdateStatus_NoAuto(order, update_data, now) ==
  [order EXCEPT
     !.shipped = IF update_data.shipped # None THEN update_data.shipped[1] ELSE @,
     !.date_shipped = IF update_data.date_shipped # None THEN update_data.date_shipped ELSE @]

\* variant, not the code: the timestamp is filled in whenever the order ends up shipped and
\* the request supplied no date_shipped
UpdateStatus_Restamp(order, update_data, now) ==
  LET shipped == IF update_data.shipped # None THEN update_data.shipped[1] ELSE order.shipped
  IN  [order EXCEPT
         !.shipped = shipped,
         !.date_shipped = IF update_data.date_shipped # None THEN update_data.date_shipped
                          ELSE IF shipped THEN Some(now) ELSE @]

\* the status fields of the order after lines 178-184
UpdateStatus(order, update_data, now) ==
  LET shipped == IF update_data.shipped # None THEN update_data.shipped[1] ELSE order.shipped
      date1 == IF update_data.date_shipped # None THEN update_data.date_shipped
               ELSE order.date_shipped
      date2 == IF shipped /\ date1 = None THEN Some(now) ELSE date1
  IN  [order EXCEPT !.shipped = shipped, !.date_shipped = date2]

\* variant, not the code: the query filters on product_id alone
Matching_AnyOrder(rows, order_id, product_id) == {r \in rows : r.product_id = product_id}

\* the rows the query of lines 189-192 ranges over
Matching(rows, order_id, product_id) ==
  {r \in rows : r.order_id = order_id /\ r.product_id = product_id}

\* one OrderItem after lines 194-197
UpdateItem(order_item, item) ==
  [order_item EXCEPT
     !.quantity = IF item.quantity # None THEN item.quantity[1] ELSE @,
     !.price = IF item.price # None THEN item.price[1] ELSE @]

\* variant, not the code: every matching row is updated
ApplyEntry_All(rows, order_id, item) ==
  {{IF r.order_id = order_id /\ r.product_id = item.product_id
     THEN [r EXCEPT !.quantity = IF item.quantity # None THEN item.quantity[1] ELSE @,
                    !.price = IF item.price # None THEN item.price[1] ELSE @]
     ELSE r : r \in rows}}

\* the tables one pass of the loop body can leave: .first() takes one of the
\* matching rows (the query has no ORDER BY), or none when there is none
ApplyEntry(rows, order_id, item) ==
  LET found == Matching(rows, order_id, item.product_id)
  IN  IF found = {} THEN {rows}
      ELSE {(rows \ {r}) \cup {UpdateItem(r, item)} : r \in found}

RECURSIVE ApplyEntries(_, _, _)
ApplyEntries(rows, order_id, entries) ==
  IF entries = <<>> THEN {rows}
  ELSE UNION {ApplyEntries(t, order_id, Tail(entries)) :
                t \in ApplyEntry(rows, order_id, Head(entries))}

\* the product ids the entries of an update request name
EntryProducts(update_data) ==
  IF update_data.items = None THEN <<>>
  ELSE [k \in 1..Len(update_data.items[1]) |-> update_data.items[1][k].product_id]

update_order(order_id, update_data) ==
  /\ UNCHANGED <<nextOrderId, nextItemId, inflight>>
  /\ IF OrderRow(orders, order_id) = {}
     THEN /\ resp' = Response("update_order", 404, order_id, NoNote, {})
          /\ UNCHANGED <<orders, items>>
     ELSE \E order \in OrderRow(orders, order_id) :
            /\ orders' \in {(orders \ {order}) \cup {UpdateStatus(order, update_data, now)} :
                              now \in Times}
            /\ items' \in (IF update_data.items # None
                           THEN ApplyEntries(items, order_id, update_data.items[1])
                           ELSE {items})
            /\ resp' = Response("update_order", 200, order_id,
                                Note(update_data.date_shipped # None,
                                     EntryProducts(update_data)), {})

(***************************************************************************)
(* DELETE /orders/{order_id}.                                              *)
(***************************************************************************)
\* variant, not the code: the OrderItems are deleted and the PaymentOrder is left
delete_order_ItemsOnly(order_id) ==
  /\ UNCHANGED <<nextOrderId, nextItemId, inflight, orders>>
  /\ IF OrderRow(orders, order_id) = {}
     THEN /\ resp' = Response("delete_order", 404, order_id, NoNote, {})
          /\ UNCHANGED items
     ELSE /\ items' = Cascade(items, order_id)
          /\ resp' = Response("delete_order", 200, order_id, NoNote, {})

delete_order(order_id) ==
  /\ UNCHANGED <<nextOrderId, nextItemId, inflight>>
  /\ IF OrderRow(orders, order_id) = {}
     THEN /\ resp' = Response("delete_order", 404, order_id, NoNote, {})
          /\ UNCHANGED <<orders, items>>
     ELSE /\ orders' = orders \ OrderRow(orders, order_id)
          /\ items' = Cascade(items, order_id)
          /\ resp' = Response("delete_order", 200, order_id, NoNote, {})

(***************************************************************************)
(* GET /sales.                                                             *)
(***************************************************************************)
get_sales ==
  /\ resp' = Response("get_sales", 200, 0, NoNote, orders)
  /\ UNCHANGED <<orders, items, nextOrderId, nextItemId, inflight>>

(***************************************************************************)
(* The two aggregations: Product joined to OrderItem on product_id,        *)
(* grouped by product, summed.                                             *)
(***************************************************************************)
\* the join of lines 58 and 85: the pairs of a Product and an OrderItem of it
Joined(rows) == {<<p, r>> \in Products \X rows : r.product_id = p.id}

\* the groups of lines 59 and 86
Groups(rows) == {pr[1] : pr \in Joined(rows)}

GroupRows(rows, p) == {pr[2] : pr \in {q \in Joined(rows) : q[1] = p}}

\* variant, not the code: the prices are summed, not price * quantity
RECURSIVE SumRevenueOf_Prices(_)
SumRevenueOf_Prices(S) ==
  IF S = {} THEN 0
  ELSE LET r == CHOOSE y \in S : TRUE IN r.price + SumRevenueOf_Prices(S \ {r})

\* func.sum(OrderItem.price * OrderItem.quantity) over the rows of a group
RECURSIVE SumRevenueOf(_)
SumRevenueOf(S) ==
  IF S = {} THEN 0
  ELSE LET r == CHOOSE y \in S : TRUE IN r.price * r.quantity + SumRevenueOf(S \ {r})

\* func.sum(OrderItem.quantity) over the rows of a group
RECURSIVE SumQuantityOf(_)
SumQuantityOf(S) ==
  IF S = {} THEN 0
  ELSE LET r == CHOOSE y \in S : TRUE IN r.quantity + SumQuantityOf(S \ {r})

SumRevenue(rows, p) == SumRevenueOf(GroupRows(rows, p))

SumQuantity(rows, p) == SumQuantityOf(GroupRows(rows, p))

\* the records of lines 63-70; the sums of the model are whole numbers, which
\* float() carries over unchanged
TotalRevenueRows(rows) ==
  {[total_revenue |-> SumRevenue(rows, p), product_id |-> p.id, product_name |-> p.name] :
     p \in Groups(rows)}

get_total_revenue_per_product ==
  /\ resp' = Response("totalrevenue", 200, 0, NoNote, TotalRevenueRows(items))
  /\ UNCHANGED <<orders, items, nextOrderId, nextItemId, inflight>>

\* the groups that can come first under ORDER BY sum(quantity) DESC: the
\* order among equal sums is the store's
TopGroups(rows) ==
  {p \in Groups(rows) : \A q \in Groups(rows) : SumQuantity(rows, q) <= SumQuantity(rows, p)}

HighestSellingRow(rows, p) ==
  [total_revenue |-> SumRevenue(rows, p), product_id |-> p.id, product_name |-> p.name,
   total_quantity |-> SumQuantity(rows, p)]

get_highest_selling_product ==
  /\ UNCHANGED <<orders, items, nextOrderId, nextItemId, inflight>>
  /\ IF TopGroups(items) = {}
     THEN resp' = Response("highest_selling", 404, 0, NoNote, {})
     ELSE \E p \in TopGroups(items) :
            resp' = Response("highest_selling", 200, 0, NoNote, {HighestSellingRow(items, p)})

Next ==
  \/ \E order \in OrderIn : add_order(order)
  \/ \E req \in inflight : add_order_items(req)
  \/ \E req \in inflight : add_order_fails(req)
  \/ \E order_id \in OrderIds, update_data \in UpdateOrderIn : update_order(order_id, update_data)
  \/ \E order_id \in OrderIds : delete_order(order_id)
  \/ get_sales
  \/ get_total_revenue_per_product
  \/ get_highest_selling_product

\* every handler, every request
Spec == Init /\ [][Next]_vars

(***************************************************************************)
(* The same machine with callers that send fewer kinds of request.  Each   *)
(* specification below keeps every handler that writes the store and       *)
(* narrows the requests to the part of them its properties are about.      *)
(***************************************************************************)
Ann == CHOOSE p \in Profiles : p.full_name = "Ann"

Bob == CHOOSE p \in Profiles : p.full_name = "Bob"

\* two callers: an anonymous one and user 7
Heads == {[user_id |-> None, profile |-> Ann], [user_id |-> Some(7), profile |-> Bob]}

OrdersWith(heads, lists) ==
  {[user_id |-> h.user_id, profile |-> h.profile, items |-> l] : h \in heads, l \in lists}

\* StatusSpec: orders without items, every combination of shipped and
\* date_shipped in the updates
StatusOrderIn == OrdersWith(Heads, {<<>>})

StatusUpdateIn == [shipped : Opt(BOOLEAN), date_shipped : Opt(Times), items : {None}]

StatusNext ==
  \/ \E order \in StatusOrderIn : add_order(order)
  \/ \E req \in inflight : add_order_items(req)
  \/ \E req \in inflight : add_order_fails(req)
  \/ \E order_id \in OrderIds, update_data \in StatusUpdateIn : update_order(order_id, update_data)
  \/ \E order_id \in OrderIds : delete_order(order_id)
  \/ get_sales

StatusSpec == Init /\ [][StatusNext]_vars

\* CreateSpec: orders with items, one of them of a product id that is the id
\* of no Product; the updates are the empty request
CreateItems ==
  {[product_id |-> 1, quantity |-> 1, price |-> 5], [product_id |-> 3, quantity |-> 2, price |-> 10]}

CreateOrderIn == OrdersWith(Heads, SeqsUpTo(CreateItems, MaxItems))

CreateUpdateIn == [shipped : {None}, date_shipped : {None}, items : {None}]

CreateNext ==
  \/ \E order \in CreateOrderIn : add_order(order)
  \/ \E req \in inflight : add_order_items(req)
  \/ \E req \in inflight : add_order_fails(req)
  \/ \E order_id \in OrderIds, update_data \in CreateUpdateIn : update_order(order_id, update_data)
  \/ \E order_id \in OrderIds : delete_order(order_id)

CreateSpec == Init /\ [][CreateNext]_vars

\* UpdateSpec: update_order, any number of times, on every
\* store that add_order leaves when one caller has placed MaxOrders orders one
\* after the other, with items of products 1 and 2 (MaxItems in all).  An
\* update ships the order, or holds entries that set the quantity of product 1
\* or the price of product 2.
UpdateItems == [product_id : {1, 2}, quantity : {1}, price : {5}]

UpdateHead == [user_id |-> None, profile |-> Ann, items |-> <<>>]

\* the stores after MaxOrders orders have been placed one after the other with
\* items out of choices, MaxItems in all: placed lists the items in the order of
\* their insertion, each with the id of its order
PlacedInit(choices) ==
  \E placed \in SeqsUpTo(OrderIds \X choices, MaxItems) :
    /\ \A i, j \in 1..Len(placed) : i < j => placed[i][1] <= placed[j][1]
    /\ orders = {NewPaymentOrder(k, UpdateHead) : k \in OrderIds}
    /\ items = UNION {NewOrderItems(placed[k][1], UpdateHead.user_id, <<placed[k][2]>>, k) :
                        k \in 1..Len(placed)}
    /\ nextOrderId = MaxOrders + 1
    /\ nextItemId = Len(placed) + 1
    /\ inflight = {}
    /\ resp = Response("none", 0, 0, NoNote, {})

UpdateInit == PlacedInit(UpdateItems)

UpdateEntries ==
  {[product_id |-> 1, quantity |-> Some(2), price |-> None],
   [product_id |-> 2, quantity |-> None, price |-> Some(10)]}

UpdateIn ==
  {[shipped |-> Some(TRUE), date_shipped |-> Some(1), items |-> None]} \cup
  {[shipped |-> None, date_shipped |-> None, items |-> Some(l)] :
     l \in SeqsUpTo(UpdateEntries, MaxEntries)}

UpdateNext ==
  \E order_id \in OrderIds, update_data \in UpdateIn : update_order(order_id, update_data)

UpdateSpec == UpdateInit /\ [][UpdateNext]_vars

\* QuerySpec: the two aggregations on every store that add_order leaves when
\* MaxOrders orders have been placed one after the other with any items
\* (MaxItems in all), product id 3 among them
QueryInit == PlacedInit(OrderItemIn)

QueryNext ==
  \/ get_total_revenue_per_product
  \/ get_highest_selling_product

QuerySpec == QueryInit /\ [][QueryNext]_vars

\* ReportSpec: CreateSpec with the two aggregations
ReportNext ==
  \/ CreateNext
  \/ get_total_revenue_per_product
  \/ get_highest_selling_product

ReportSpec == Init /\ [][ReportNext]_vars

(***************************************************************************)
(* Properties.                                                             *)
(***************************************************************************)
\* a step that ends a request with a response: every step but the first
\* commit of add_order
Responded == nextOrderId' = nextOrderId

Updated(order_id) ==
  /\ Responded
  /\ resp'.op = "update_order"
  /\ resp'.code = 200
  /\ resp'.order_id = order_id

\* C1: in every reachable state, an order that is shipped has a date_shipped:
\* add_order stores shipped = false, and update_order fills in the timestamp
\* whenever it leaves shipped true and date_shipped unset.
C1_ShippedHasDate == \A o \in orders : o.shipped => o.date_shipped # None

\* an update without date_shipped has just left an order shipped, with a date
C1_Witness ==
  /\ resp.op = "update_order"
  /\ resp.code = 200
  /\ ~resp.note.dated
  /\ \E o \in OrderRow(orders, resp.order_id) : o.shipped /\ o.date_shipped # None

\* C2: once set, an order's date_shipped stays set for as long as the order
\* exists, and its value changes only in an update of that order whose request
\* supplies date_shipped.
C2_DateNeverCleared ==
  [][\A o \in orders : \A n \in OrderRow(orders', o.id) :
       o.date_shipped # None =>
         /\ n.date_shipped # None
         /\ n.date_shipped # o.date_shipped => Updated(o.id) /\ resp'.note.dated]_vars

\* an update without date_shipped has just left an order unshipped, its date kept
C2_Witness ==
  /\ resp.op = "update_order"
  /\ resp.code = 200
  /\ ~resp.note.dated
  /\ \E o \in OrderRow(orders, resp.order_id) : ~o.shipped /\ o.date_shipped # None

\* C5: delete_order and update_order of an id with no PaymentOrder answer 404
\* and leave the store as it is; a delete_order that answers 200 leaves no
\* PaymentOrder of that id; an id once handed out and no longer in the store is
\* never in it again, nor in a sales listing.
C5_DeletedStaysGone ==
  [][/\ Responded /\ resp'.op \in {"update_order", "delete_order"}
        /\ OrderRow(orders, resp'.order_id) = {}
        => resp'.code = 404 /\ orders' = orders /\ items' = items
     /\ Responded /\ resp'.op = "delete_order" /\ OrderRow(orders, resp'.order_id) # {}
        => resp'.code = 200 /\ OrderRow(orders', resp'.order_id) = {}
     /\ \A id \in OrderIds :
          id < nextOrderId /\ OrderRow(orders, id) = {}
          => /\ OrderRow(orders', id) = {}
             /\ Responded /\ resp'.op = "get_sales" => OrderRow(resp'.body, id) = {}]_vars

\* an order that was created and deleted has just been asked for again: 404
C5_Witness ==
  /\ resp.op \in {"update_order", "delete_order"}
  /\ resp.code = 404
  /\ resp.order_id < nextOrderId

\* the request whose second commit this step is
Committed(req) ==
  /\ Responded
  /\ resp'.op = "add_order"
  /\ resp'.code = 200
  /\ req \in inflight
  /\ req \notin inflight'

SameItem(row, item) ==
  /\ row.product_id = item.product_id
  /\ row.quantity = item.quantity
  /\ row.price = item.price

\* C3: when add_order answers 200, the order holds exactly the submitted
\* items (as many rows as the list is long, each submitted item as often as
\* the list has it), every one with the order's id and the order's user_id,
\* and every row that was there before is still there, unchanged.
C3_OrderHoldsSubmittedItems ==
  [][\A req \in inflight :
       Committed(req) =>
         LET new == ItemsOf(items', req.order_id)
         IN  /\ Cardinality(new) = Len(req.items)
             /\ \A k \in 1..Len(req.items) :
                  Cardinality({n \in new : SameItem(n, req.items[k])})
                    = Cardinality({j \in 1..Len(req.items) : req.items[j] = req.items[k]})
             /\ \A n \in new : n.user_id = req.user_id
             /\ \A n \in new : \A o \in OrderRow(orders', req.order_id) : n.user_id = o.user_id
             /\ items' \ new = items]_vars

\* an order of user 7 has just been created with items, beside the items of
\* another order
C3_Witness ==
  /\ resp.op = "add_order"
  /\ resp.code = 200
  /\ \E o \in OrderRow(orders, resp.order_id) : o.user_id = Some(7)
  /\ ItemsOf(items, resp.order_id) # {}
  /\ \E n \in items : n.order_id # resp.order_id

\* C4: a request that ends between the two commits leaves the store as the
\* first commit left it (the order stays, with no items); the rows of an order
\* appear all at once, in the second commit of its request, after the order
\* itself; and a PaymentOrder leaves the store only through delete_order.
C4_TwoCommitPoints ==
  [][/\ Responded /\ resp'.op = "add_order" /\ resp'.code = 500
        => orders' = orders /\ items' = items
     /\ \A id \in OrderIds :
          LET old == {n.id : n \in ItemsOf(items, id)}
              new == {n.id : n \in ItemsOf(items', id)}
          IN  \/ new = old
              \/ new = {}
              \/ /\ old = {}
                 /\ id < nextOrderId
                 /\ \E req \in inflight :
                      req.order_id = id /\ Committed(req) /\ Cardinality(new) = Len(req.items)
     /\ \A o \in orders :
          OrderRow(orders', o.id) = {}
          => Responded /\ resp'.op = "delete_order" /\ resp'.code = 200
             /\ resp'.order_id = o.id]_vars

\* a request has just ended between its commits: its order is there, without items
C4_Witness ==
  /\ resp.op = "add_order"
  /\ resp.code = 500
  /\ OrderRow(orders, resp.order_id) # {}
  /\ ItemsOf(items, resp.order_id) = {}

\* C9: every OrderItem references a Product and a PaymentOrder that exist.
C9_ReferentialIntegrity ==
  \A n \in items :
    /\ \E p \in Products : p.id = n.product_id
    /\ OrderRow(orders, n.order_id) # {}

\* the entries of the request just answered that name product_id
EntriesFor(product_id) == {k \in 1..Len(resp'.note.products) : resp'.note.products[k] = product_id}

\* the OrderItems of an order with a product id
Holds(rows, order_id, product_id) ==
  {n \in rows : n.order_id = order_id /\ n.product_id = product_id}

\* C6: an update entry whose product_id is on no OrderItem of the addressed
\* order changes nothing: the request is answered 200 all the same, no
\* OrderItem appears, and every OrderItem with that product_id (they are all
\* of other orders) is left as it was.
C6_MissingProductIsNoOp ==
  [][\A id \in OrderIds :
       Responded /\ resp'.op = "update_order" /\ resp'.order_id = id /\ OrderRow(orders, id) # {}
       => \A p \in ProductIds :
            EntriesFor(p) # {} /\ Holds(items, id, p) = {}
            => /\ resp'.code = 200
               /\ {n.id : n \in items'} = {n.id : n \in items}
               /\ \A n \in items : n.product_id = p => n \in items'
               /\ (\A q \in ProductIds : EntriesFor(q) # {} => Holds(items, id, q) = {})
                  => items' = items]_vars

\* an update has just been answered 200 with an entry for a product that the
\* order does not hold and another order does
C6_Witness ==
  /\ resp.op = "update_order"
  /\ resp.code = 200
  /\ \E k \in 1..Len(resp.note.products) :
       /\ Holds(items, resp.order_id, resp.note.products[k]) = {}
       /\ \E n \in items : n.product_id = resp.note.products[k]

\* C10: a successful update_order(order_id) changes only shipped and
\* date_shipped of that order and quantity and price of OrderItems of that
\* order: every other field, every other order and its items, the ids handed
\* out and the requests in flight stay as they were, no row appears or
\* disappears, and of the OrderItems with one product_id no more change than
\* the request has entries for that product_id.
C10_UpdateFrame ==
  [][Responded /\ resp'.op = "update_order" /\ resp'.code = 200 =>
       LET id == resp'.order_id
           changed == items \ items'
       IN  /\ \A o \in orders :
                IF o.id = id
                THEN \E n \in orders' :
                       n = [o EXCEPT !.shipped = n.shipped, !.date_shipped = n.date_shipped]
                ELSE o \in orders'
           /\ Cardinality(orders') = Cardinality(orders)
           /\ \A n \in changed :
                /\ n.order_id = id
                /\ \E m \in items' \ items :
                     m = [n EXCEPT !.quantity = m.quantity, !.price = m.price]
           /\ Cardinality(items') = Cardinality(items)
           /\ \A p \in ProductIds :
                Cardinality({n \in changed : n.product_id = p}) <= Cardinality(EntriesFor(p))
           /\ UNCHANGED <<nextOrderId, nextItemId, inflight>>]_vars

\* an order holds two OrderItems of one product, and an update with an entry
\* for that product has just changed one of them
C10_Witness ==
  /\ resp.op = "update_order"
  /\ resp.code = 200
  /\ \E n, m \in ItemsOf(items, resp.order_id) :
       /\ n.id # m.id
       /\ n.product_id = m.product_id
       /\ <<n.quantity, n.price>> # <<m.quantity, m.price>>
       /\ \E k \in 1..Len(resp.note.products) : resp.note.products[k] = n.product_id

\* price * quantity of the OrderItems of a product, summed along the row ids
RECURSIVE RevenueUpTo(_, _)
RevenueUpTo(product_id, k) ==
  IF k = 0 THEN 0
  ELSE RevenueUpTo(product_id, k - 1)
       + (IF \E n \in items : n.id = k /\ n.product_id = product_id
          THEN LET n == CHOOSE m \in items : m.id = k IN n.price * n.quantity
          ELSE 0)

\* quantity of the OrderItems of a product, summed along the row ids
RECURSIVE QuantityUpTo(_, _)
QuantityUpTo(product_id, k) ==
  IF k = 0 THEN 0
  ELSE QuantityUpTo(product_id, k - 1)
       + (IF \E n \in items : n.id = k /\ n.product_id = product_id
          THEN LET n == CHOOSE m \in items : m.id = k IN n.quantity
          ELSE 0)

\* the ids of the Products that have an OrderItem
Sold == {p.id : p \in {q \in Products : \E n \in items : n.product_id = q.id}}

\* C7: total_revenue_per_product answers one record for each Product that has
\* an OrderItem and none for any other, and the total_revenue of a record is
\* the sum of price * quantity over the OrderItems of its product, of whatever
\* order.
C7_TotalRevenue ==
  resp.op = "totalrevenue" =>
    /\ resp.code = 200
    /\ {r.product_id : r \in resp.body} = Sold
    /\ Cardinality(resp.body) = Cardinality(Sold)
    /\ \A r \in resp.body :
         /\ r.total_revenue = RevenueUpTo(r.product_id, nextItemId - 1)
         /\ \E p \in Products : p.id = r.product_id /\ p.name = r.product_name

\* the answer for a product with the items {price 10, quantity 2} and
\* {price 5, quantity 1}: 25
C7_Witness ==
  /\ resp.op = "totalrevenue"
  /\ \E r \in resp.body :
       /\ r.total_revenue = 25
       /\ \E n, m \in items :
            /\ n.product_id = r.product_id /\ n.price = 10 /\ n.quantity = 2
            /\ m.product_id = r.product_id /\ m.price = 5 /\ m.quantity = 1

\* C8: highest_selling_product answers 404 when there is no OrderItem, and
\* otherwise one record, of a Product whose summed quantity no Product
\* exceeds, with that product's sums of quantity and of price * quantity.
C8_HighestSelling ==
  resp.op = "highest_selling" =>
    IF items = {} THEN resp.code = 404
    ELSE /\ resp.code = 200
         /\ Cardinality(resp.body) = 1
         /\ \A r \in resp.body :
              /\ r.product_id \in Sold
              /\ r.total_quantity = QuantityUpTo(r.product_id, nextItemId - 1)
              /\ r.total_revenue = RevenueUpTo(r.product_id, nextItemId - 1)
              /\ \A p \in Products : QuantityUpTo(p.id, nextItemId - 1) <= r.total_quantity

====
